---- MODULE Spec2Model ----
(***************************************************************************)
(* Model of VisibleFunctionUpdater (src/unnamed/part_000): the trace to    *)
(* graph state machine that turns js-interpreter states into D3 nodes and  *)
(* links.  The closure variables of VisibleFunctionUpdater are the         *)
(* variables of the module; node objects live in the heap `info`, indexed  *)
(* by node id, and a node reference is its id (Null for null).             *)
(***************************************************************************)
EXTENDS Integers, Sequences, FiniteSets, TLC

\* ------------------------------------------------------------------------
\* Bounds of the model
\* ------------------------------------------------------------------------
\* number of call expressions the traced program enters (root included)
MaxCalls == 3
\* largest value of maxAllowedReturnNodes the driver passes
MaxLimit == 2
\* cap on the root's errorCount
MaxErrors == 2

\* ------------------------------------------------------------------------
\* Values
\* ------------------------------------------------------------------------
Null == 0
Undefined == "undefined"
NoWarning == "null"
\* assignmentWarningVar = null
NoVar == "null"
\* a hole of a sparse array
Hole == ""
WarnNoReturn == "Function does not return a value"
WarnUnassigned == "Function result is not assigned to a value"
WarnMutated == "Function has mutated variable in another scope"
WarnNotInChain == "Function refers to an external variable that does not exist in the scope chain"
WarnImmutability == "Function has changed a variable in scope after creation"

Front(s) == IF Len(s) = 0 THEN s ELSE SubSeq(s, 1, Len(s) - 1)
LastOf(s) == s[Len(s)]
\* With([x \in {v} |-> e]) is e with x naming the value of v: a statement's
\* result is computed once, and the statements after it use that result
With(f) == CHOOSE y \in UNION {{g[x] : x \in DOMAIN g} : g \in {f}} : TRUE
Elems(s) == {s[i] : i \in 1..Len(s)}

\* Array.prototype.indexOf, 1-based; 0 when absent
IndexOf(s, x) ==
  IF \E i \in 1..Len(s) : s[i] = x
  THEN CHOOSE i \in 1..Len(s) : s[i] = x /\ \A j \in 1..(i - 1) : s[j] # x
  ELSE 0

\* Array.prototype.splice(start, deleteCount) with 0-based start >= 0
Splice(s, start, cnt) ==
  LET from == IF start > Len(s) THEN Len(s) ELSE start
      del == IF cnt > Len(s) - from THEN Len(s) - from ELSE cnt
  IN  SubSeq(s, 1, from) \o SubSeq(s, from + del + 1, Len(s))

VARIABLES
  nodes, links, info,
  state, prevState, scopeChain, currentScope, updatedDisplayArgs,
  rootNode, linkIndex, rootNodeIndex, recursion, warning,
  assignmentWarningVar, exitingNode,
  doneAction, fault, itemsToRemoveCount,
  callStack, calls, maxAllowedReturnNodes, lastAssigned, pc

vars == <<nodes, links, info,
          state, prevState, scopeChain, currentScope, updatedDisplayArgs,
          rootNode, linkIndex, rootNodeIndex, recursion, warning,
          assignmentWarningVar, exitingNode,
          doneAction, fault, itemsToRemoveCount,
          callStack, calls, maxAllowedReturnNodes, lastAssigned, pc>>

\* ------------------------------------------------------------------------
\* Interpreter states (the fields of interpreter.stateStack[0] the code reads)
\* ------------------------------------------------------------------------
NoCallee == [type |-> "none", name |-> ""]
NoValue == [isPrimitive |-> TRUE, data |-> Undefined]
NoScope == [present |-> FALSE, properties |-> {}]
NoFunc == [present |-> FALSE, nativeFunc |-> FALSE, params |-> <<>>]

BaseState(type) ==
  [node |-> [type |-> type, callee |-> NoCallee, args |-> <<>>, left |-> ""],
   doneCallee_ |-> FALSE, doneExec |-> FALSE,
   doneLeft |-> FALSE, doneRight |-> FALSE,
   value |-> NoValue, scope |-> NoScope, func_ |-> NoFunc, n_ |-> 0]

\* `let state;` before the first action call
NoState == BaseState(Undefined)

\* what a call can evaluate to: nothing, or a primitive
Values == {[isPrimitive |-> TRUE, data |-> Undefined],
           [isPrimitive |-> TRUE, data |-> "1"]}

\* ------------------------------------------------------------------------
\* Step Classifier
\* ------------------------------------------------------------------------
isSupportedFunctionCall(st) ==
  /\ st.node.type = "CallExpression" /\ ~st.doneCallee_
  /\ ~(st.node.callee.type = "MemberExpression")

isSupportedReturnToCaller(st) ==
  /\ st.node.type = "CallExpression" /\ st.doneExec
  /\ ~(st.node.callee.type = "MemberExpression")

\* ------------------------------------------------------------------------
\* formatOutput collaborator
\* ------------------------------------------------------------------------
getArgIdentifiers(node) == node.args
getDisplayArgs(node) == node.args
\* the composed label: callee name, marked when the call is recursive
displayName(name, args, rec) == [name |-> name, recursion |-> rec]
interpreterIdentifier(value, identifier) ==
  IF value.isPrimitive THEN value.data ELSE identifier
\* `return (${returnValue})`: the label is kept as its kind, not its text
ReturnLabel(returnValue) == [name |-> "return", recursion |-> FALSE]

\* ------------------------------------------------------------------------
\* The closure state as one record, threaded through the helper functions
\* s.ret is the value the helper returned, s.fault the exception it threw
\* ------------------------------------------------------------------------
SetInfo(s, id, f, v) == [s EXCEPT !.info[id][f] = v]

IncErrorCount(s) ==
  [s EXCEPT !.info[s.rootNode].errorCount = @ + 1]

Throw(s) == [s EXCEPT !.fault = "TypeError", !.ret = FALSE]

\* lines 79-84 with source and target exchanged
getCallLinkSwapped(source, target, lstate, idx) ==
  [source |-> target, target |-> source, state |-> lstate, linkIndex |-> idx]

getCallLink(source, target, lstate, idx) ==
  [source |-> source, target |-> target, state |-> lstate, linkIndex |-> idx]

\* lines 115-122 indexing the caller's arguments by the argument's own position
SubstituteArgsByPosition(raw, callerParams, callerArgs) ==
  [i \in 1..Len(raw) |->
     IF IndexOf(callerParams, raw[i]) > 0
     THEN IF i <= Len(callerArgs) THEN callerArgs[i] ELSE Undefined
     ELSE raw[i]]

\* lines 110-123: replace the identifiers that are parameters of the caller
SubstituteArgs(raw, callerParams, callerArgs) ==
  [i \in 1..Len(raw) |->
     LET callerParamIndex == IndexOf(callerParams, raw[i])
     IN  IF callerParamIndex > 0
         THEN IF callerParamIndex <= Len(callerArgs)
              THEN callerArgs[callerParamIndex] ELSE Undefined
         ELSE raw[i]]

\* line 140 with the test on the wrong list
IsFirstNodeByLinks(s) == Len(s.links) = 0
\* line 140: nodes.length === 0
IsFirstNode(s) == Len(s.nodes) = 0

addEnteringFunction(s, st) ==
  IF isSupportedFunctionCall(st)
  THEN
    LET calleeName == st.node.callee.name
        callerNode == IF Len(s.scopeChain) > 0 THEN LastOf(s.scopeChain) ELSE Null
        raw == getArgIdentifiers(st.node)
        rec == callerNode # Null /\ calleeName = s.info[callerNode].name
        argumentIds ==
          IF callerNode # Null /\ s.info[callerNode].paramIds # <<>>
          THEN SubstituteArgs(raw, s.info[callerNode].paramIds,
                              s.info[callerNode].argumentIds)
          ELSE raw
        displayArgs == getDisplayArgs(st.node)
        first == IsFirstNode(s)
        calleeNode == Len(s.info) + 1
        calleeInfo ==
          [name |-> calleeName,
           argumentIds |-> argumentIds,
           displayArgs |-> displayArgs,
           displayName |-> displayName(calleeName, displayArgs, rec),
           callerNode |-> callerNode,
           type |-> IF first THEN "root" ELSE "function",
           status |-> IF first THEN "success" ELSE "normal",
           errorCount |-> 0,
           paramIds |-> <<>>,
           variablesDeclaredInScope |-> {}]
    IN  [s EXCEPT
           !.recursion = rec,
           !.info = Append(@, calleeInfo),
           !.rootNode = IF first THEN calleeNode ELSE @,
           !.nodes = Append(@, calleeNode),
           !.links = IF callerNode # Null
                     THEN Append(@, getCallLink(callerNode, calleeNode, "calling", s.linkIndex))
                     ELSE @,
           !.linkIndex = IF callerNode # Null THEN @ + 1 ELSE @,
           !.scopeChain = Append(@, calleeNode),
           !.ret = TRUE]
  ELSE [s EXCEPT !.ret = FALSE]

\* ------------------------------------------------------------------------
\* Exiting helpers
\* ------------------------------------------------------------------------
\* TRUE, FALSE, or "throw" when rootNode is dereferenced while null
isNotExitingRootNode(s, st) ==
  IF st.node.type = "CallExpression" /\ st.node.callee.type = "FunctionExpression"
  THEN IF s.rootNode = Null THEN "throw"
       ELSE IF st.node.callee.name = s.info[s.rootNode].name THEN "no" ELSE "yes"
  ELSE "yes"

IsUsableValue(st) ==
  (st.doneCallee_ /\ (st.value.isPrimitive /\ st.value.data # Undefined))
    \/ ~st.value.isPrimitive

\* lines 226-233 without the test for the root: the source is marked always
exitLinkWarnsRoot(s, st, exitingLink) ==
  IF IsUsableValue(st)
  THEN
    LET s1 == SetInfo(s, exitingLink.target, "status", "returning")
        returnLink == getCallLink(exitingLink.target, exitingLink.source,
                                  "returning", s.linkIndex)
    IN  [s1 EXCEPT !.linkIndex = @ + 1,
                   !.links = Front(<<returnLink>> \o @)]
  ELSE
    With([s1 \in {IncErrorCount(s)} |->
      With([s2 \in {SetInfo(s1, exitingLink.target, "status", "failure")} |->
        With([s3 \in {[s2 EXCEPT !.warning = WarnNoReturn]} |->
          With([s4 \in {SetInfo(s3, exitingLink.source, "status", "warning")} |->
            [s4 EXCEPT !.links = Front(@)]])])])])

exitLink(s, st, exitingLink) ==
  IF IsUsableValue(st)
  THEN
    LET s1 == SetInfo(s, exitingLink.target, "status", "returning")
        returnLink == getCallLink(exitingLink.target, exitingLink.source,
                                  "returning", s.linkIndex)
    IN  [s1 EXCEPT !.linkIndex = @ + 1,
                   !.links = Front(<<returnLink>> \o @)]
  ELSE
    With([s1 \in {IncErrorCount(s)} |->
      With([s2 \in {SetInfo(s1, exitingLink.target, "status", "failure")} |->
        With([s3 \in {[s2 EXCEPT !.warning = WarnNoReturn]} |->
          With([s4 \in {IF exitingLink.source # s.rootNode
               THEN SetInfo(s3, exitingLink.source, "status", "warning")
               ELSE SetInfo(s3, s.rootNode, "status", "")} |->
            [s4 EXCEPT !.links = Front(@)]])])])])

exitNode(s, st, exiting) ==
  LET originalIdentifier ==
        IF st.n_ >= 1 /\ st.n_ <= Len(s.info[exiting].displayArgs)
        THEN s.info[exiting].displayArgs[st.n_] ELSE Undefined
      returnValue == interpreterIdentifier(st.value, originalIdentifier)
      s1 == SetInfo(s, exiting, "displayName", ReturnLabel(returnValue))
  IN  [s1 EXCEPT !.nodes = <<exiting>> \o Front(@),
                 !.rootNodeIndex = @ + 1]

\* lines 263-274 removing from one place too far: the root position
removeOldestReturnedFromRoot(s, maxAllowed) ==
  LET toRemove == s.rootNodeIndex - maxAllowed
      removalStartIndex == s.rootNodeIndex - toRemove + 1
  IN  [s EXCEPT
         !.links = IF Len(s.nodes) > 1
                   THEN Splice(@, removalStartIndex, toRemove) ELSE @,
         !.nodes = Splice(@, removalStartIndex, toRemove),
         !.rootNodeIndex = @ - toRemove,
         !.itemsToRemoveCount = toRemove]

\* lines 263-274 removing a single node however far the limit dropped
removeOldestReturnedSingle(s, maxAllowed) ==
  LET toRemove == 1
      removalStartIndex == s.rootNodeIndex - toRemove
  IN  [s EXCEPT
         !.links = IF Len(s.nodes) > 1
                   THEN Splice(@, removalStartIndex, toRemove) ELSE @,
         !.nodes = Splice(@, removalStartIndex, toRemove),
         !.rootNodeIndex = @ - toRemove,
         !.itemsToRemoveCount = toRemove]

removeOldestReturned(s, maxAllowed) ==
  LET toRemove == s.rootNodeIndex - maxAllowed
      removalStartIndex == s.rootNodeIndex - toRemove
  IN  [s EXCEPT
         !.links = IF Len(s.nodes) > 1
                   THEN Splice(@, removalStartIndex, toRemove) ELSE @,
         !.nodes = Splice(@, removalStartIndex, toRemove),
         !.rootNodeIndex = @ - toRemove,
         !.itemsToRemoveCount = toRemove]

removeExitingFunction(s, st, maxAllowed) ==
  IF isSupportedReturnToCaller(st)
  THEN
    LET notRoot == isNotExitingRootNode(s, st)
    IN  IF notRoot = "throw" THEN Throw(s)
        ELSE IF notRoot = "no" THEN [s EXCEPT !.ret = FALSE]
        ELSE
          With([s1 \in {IF Len(s.links) > 0
               THEN With([a \in {exitLink(s, st, LastOf(s.links))} |->
                      With([b \in {[a EXCEPT !.exitingNode = LastOf(a.scopeChain)]} |->
                        exitNode(b, st, b.exitingNode)])])
               ELSE s} |->
            With([s2 \in {[s1 EXCEPT !.assignmentWarningVar = NoVar]} |->
              [(IF s2.rootNodeIndex > maxAllowed
                THEN removeOldestReturned(s2, maxAllowed) ELSE s2)
                 EXCEPT !.ret = TRUE]])])
  ELSE [s EXCEPT !.ret = FALSE]

\* ------------------------------------------------------------------------
\* Update helpers
\* ------------------------------------------------------------------------
getVariablesInScope(s, st, updateNode) ==
  IF st.scope.present
  THEN With([s1 \in {[s EXCEPT !.updatedDisplayArgs = <<>>,
                      !.currentScope = st.scope.properties]} |->
         IF updateNode # Null
         THEN SetInfo(s1, updateNode, "variablesDeclaredInScope", st.scope.properties)
         ELSE s1])
  ELSE s

updateParamsIdsFromCaller(s, st, updateNode) ==
  IF st.func_.present /\ ~st.func_.nativeFunc
  THEN IF updateNode = Null THEN Throw(s)
       ELSE SetInfo(s, updateNode, "paramIds", st.func_.params)
  ELSE s

\* lines 330-344 with line 343 inside the test of line 334: a declarator
\* step leaves the marker set
isFunctionReturnUnassignedKeepsMarker(s, st, updateNode) ==
  IF s.exitingNode # Null
  THEN
    IF st.node.type # "VariableDeclarator"
    THEN
      IF s.info[s.exitingNode].callerNode = Null THEN Throw(s)
      ELSE
        With([s1 \in {SetInfo(s, s.info[s.exitingNode].callerNode, "status", "warning")} |->
          With([s2 \in {IncErrorCount(s1)} |->
            [s2 EXCEPT !.warning = WarnUnassigned, !.exitingNode = Null, !.ret = TRUE]])])
    ELSE [s EXCEPT !.ret = FALSE]
  ELSE [s EXCEPT !.ret = FALSE]

isFunctionReturnUnassigned(s, st, updateNode) ==
  IF s.exitingNode # Null
  THEN
    IF st.node.type # "VariableDeclarator"
    THEN
      IF s.info[s.exitingNode].callerNode = Null THEN Throw(s)
      ELSE
        With([s1 \in {SetInfo(s, s.info[s.exitingNode].callerNode, "status", "warning")} |->
          With([s2 \in {IncErrorCount(s1)} |->
            [s2 EXCEPT !.warning = WarnUnassigned, !.exitingNode = Null, !.ret = TRUE]])])
    ELSE [s EXCEPT !.exitingNode = Null, !.ret = FALSE]
  ELSE [s EXCEPT !.ret = FALSE]

\* lines 353-358: the frame the while loop ends on, Null when the loop
\* dereferences a null callerNode
RECURSIVE WalkCallers(_, _, _)
WalkCallers(s, callerNode, assignedExpression) ==
  LET varPresentInScope ==
        assignedExpression \in s.info[callerNode].variablesDeclaredInScope
  IN  IF ~varPresentInScope \/ s.info[callerNode].callerNode # Null
      THEN IF s.info[callerNode].callerNode = Null THEN Null
           ELSE WalkCallers(s, s.info[callerNode].callerNode, assignedExpression)
      ELSE callerNode

isVariableModifiedOutOfScope(s, st, updateNode) ==
  IF st.node.type = "AssignmentExpression" /\ st.doneLeft /\ st.doneRight
  THEN
    LET assignedExpression == st.node.left
        conditionMet == s.assignmentWarningVar # assignedExpression
    IN  IF assignedExpression \notin s.info[updateNode].variablesDeclaredInScope
        THEN
          With([callerNode \in {WalkCallers(s, updateNode, assignedExpression)} |->
            IF callerNode = Null THEN Throw(s)
            ELSE
              With([s1 \in {IncErrorCount(s)} |->
                IF assignedExpression \in s.info[callerNode].variablesDeclaredInScope
                THEN
                  With([s2 \in {SetInfo(s1, updateNode, "status", "warning")} |->
                    With([s3 \in {SetInfo(s2, callerNode, "status", "warning")} |->
                      [s3 EXCEPT !.warning = WarnMutated,
                                 !.assignmentWarningVar = assignedExpression,
                                 !.ret = conditionMet]])])
                ELSE
                  With([s4 \in {SetInfo(s1, updateNode, "status", "failure")} |->
                    [s4 EXCEPT !.warning = WarnNotInChain,
                               !.assignmentWarningVar = assignedExpression,
                               !.ret = conditionMet]])])])
        ELSE
          LET s1 == SetInfo(s, updateNode, "status", "notice")
          IN  [s1 EXCEPT !.warning = WarnImmutability,
                         !.assignmentWarningVar = assignedExpression,
                         !.ret = conditionMet]
  ELSE [s EXCEPT !.ret = FALSE]

\* a[idx] = v on a sparse array, idx 1-based
SetAt(a, idx, v) ==
  [i \in 1..(IF idx > Len(a) THEN idx ELSE Len(a)) |->
     IF i = idx THEN v ELSE IF i <= Len(a) THEN a[i] ELSE Hole]

doesDisplayNameNeedUpdating(s, st, updateNode) ==
  IF st.doneCallee_ /\ ~st.doneExec
  THEN
    LET nd == s.info[updateNode]
        identifier == IF st.n_ >= 1 /\ st.n_ <= Len(nd.argumentIds)
                      THEN nd.argumentIds[st.n_] ELSE Undefined
    IN  With([upd \in {IF st.n_ # 0
             THEN SetAt(s.updatedDisplayArgs, st.n_,
                        interpreterIdentifier(st.value, identifier))
             ELSE s.updatedDisplayArgs} |->
          With([s1 \in {[s EXCEPT !.updatedDisplayArgs = upd]} |->
            IF Len(nd.displayArgs) # 0 /\ Len(upd) = Len(nd.displayArgs)
            THEN
              LET changed(i) == upd[i] # Hole /\ upd[i] # nd.displayArgs[i]
              IN  With([newArgs \in {[i \in 1..Len(nd.displayArgs) |->
                          IF changed(i) THEN upd[i] ELSE nd.displayArgs[i]]} |->
                    With([s2 \in {SetInfo(s1, updateNode, "displayArgs", newArgs)} |->
                      With([s3 \in {SetInfo(s2, updateNode, "displayName",
                                   displayName(nd.name, newArgs, s.recursion))} |->
                        [s3 EXCEPT !.ret = \E i \in 1..Len(nd.displayArgs) : changed(i)]])])])
            ELSE [s1 EXCEPT !.ret = FALSE]])])
  ELSE [s EXCEPT !.ret = FALSE]

updateEnteringFunction(s, st) ==
  With([updateNode \in {IF Len(s.scopeChain) > 0 THEN LastOf(s.scopeChain) ELSE Null} |->
    With([s1 \in {getVariablesInScope(s, st, updateNode)} |->
      With([s2 \in {updateParamsIdsFromCaller(s1, st, updateNode)} |->
        IF s2.fault # "none" THEN s2
        ELSE IF updateNode = Null THEN [s2 EXCEPT !.ret = FALSE]
        ELSE
          With([a \in {isFunctionReturnUnassigned(s2, st, updateNode)} |->
            IF a.fault # "none" \/ a.ret THEN a
            ELSE
              With([b \in {isVariableModifiedOutOfScope(a, st, updateNode)} |->
                IF b.fault # "none" \/ b.ret THEN b
                ELSE doesDisplayNameNeedUpdating(b, st, updateNode)])])])])])

\* ------------------------------------------------------------------------
\* main action method
\* ------------------------------------------------------------------------
\* line 67 left out: the warning of an earlier step survives
KeepWarning(s) == s
\* line 67: warning = null
ResetWarning(s) == [s EXCEPT !.warning = NoWarning]

\* line 69 testing the state only: the first state is processed as well
actionIgnoringPrevState(s, st, maxAllowed) ==
  With([s0 \in {[ResetWarning(s) EXCEPT !.fault = "none", !.ret = FALSE,
                                        !.itemsToRemoveCount = 0]} |->
    IF st # NoState
    THEN
      With([a \in {addEnteringFunction(s0, st)} |->
        IF a.ret THEN a
        ELSE
          With([r \in {removeExitingFunction(a, st, maxAllowed)} |->
            IF r.fault # "none" \/ r.ret THEN r
            ELSE updateEnteringFunction(r, st)])])
    ELSE s0])

action(s, st, maxAllowed) ==
  With([s0 \in {[ResetWarning(s) EXCEPT !.fault = "none", !.ret = FALSE,
                               !.itemsToRemoveCount = 0]} |->
    IF st # NoState /\ s.prevState # Undefined
    THEN
      With([a \in {addEnteringFunction(s0, st)} |->
        IF a.ret THEN a
        ELSE
          With([r \in {removeExitingFunction(a, st, maxAllowed)} |->
            IF r.fault # "none" \/ r.ret THEN r
            ELSE updateEnteringFunction(r, st)])])
    ELSE s0])

finish(s) ==
  IF s.rootNode = Null THEN Throw([s EXCEPT !.fault = "none"])
  ELSE [SetInfo(s, s.rootNode, "status", "finished") EXCEPT !.fault = "none"]

setPrevState(s, st) ==
  IF st # NoState THEN [s EXCEPT !.prevState = st.node.type] ELSE s

\* ------------------------------------------------------------------------
\* The traced program and the interpreter that steps through it
\* ------------------------------------------------------------------------
RootName == "Program"
ParamsOf(name) ==
  CASE name = "f" -> <<"x">>
    [] name = "g" -> <<"y", "x">>
    [] OTHER -> <<>>
ScopeOf(name) ==
  CASE name = "f" -> {"x", "v", "w"}
    [] name = "g" -> {"x", "y"}
    [] OTHER -> {"v"}
\* the call expressions of the program: callee and argument identifiers
CallSites ==
  {[name |-> "f", args |-> <<"varA">>],
   [name |-> "g", args |-> <<"x", "varA">>]}
AssignNames == {"v", "w"}
\* what the argument expressions evaluate to
ValueOf(arg) ==
  IF arg = "varA" THEN [isPrimitive |-> FALSE, data |-> "obj"]
  ELSE [isPrimitive |-> TRUE, data |-> "1"]

CallState(fr) ==
  [BaseState("CallExpression") EXCEPT
     !.node.callee = [type |-> fr.calleeType, name |-> fr.name],
     !.node.args = fr.args]

Frame(name, calleeType, args, node) ==
  [name |-> name, calleeType |-> calleeType, args |-> args,
   n |-> 0, phase |-> "callee", node |-> node]

Top == LastOf(callStack)
SetTop(f, v) == [callStack EXCEPT ![Len(callStack)][f] = v]

Store ==
  [nodes |-> nodes, links |-> links, info |-> info, prevState |-> prevState,
   scopeChain |-> scopeChain, currentScope |-> currentScope,
   updatedDisplayArgs |-> updatedDisplayArgs, rootNode |-> rootNode,
   linkIndex |-> linkIndex, rootNodeIndex |-> rootNodeIndex,
   recursion |-> recursion, warning |-> warning,
   assignmentWarningVar |-> assignmentWarningVar,
   exitingNode |-> exitingNode, fault |-> fault, ret |-> doneAction,
   itemsToRemoveCount |-> itemsToRemoveCount]

Commit(r) ==
  /\ nodes' = r.nodes
  /\ links' = r.links
  /\ info' = r.info
  /\ prevState' = r.prevState
  /\ scopeChain' = r.scopeChain
  /\ currentScope' = r.currentScope
  /\ updatedDisplayArgs' = r.updatedDisplayArgs
  /\ rootNode' = r.rootNode
  /\ linkIndex' = r.linkIndex
  /\ rootNodeIndex' = r.rootNodeIndex
  /\ recursion' = r.recursion
  /\ warning' = r.warning
  /\ assignmentWarningVar' = r.assignmentWarningVar
  /\ exitingNode' = r.exitingNode
  /\ fault' = r.fault
  /\ doneAction' = r.ret
  /\ itemsToRemoveCount' = r.itemsToRemoveCount

IsCompletedAssignment(st) ==
  st.node.type = "AssignmentExpression" /\ st.doneLeft /\ st.doneRight

\* the step is handled by removeExitingFunction
IsProcessedExit(s, st) ==
  /\ s.prevState # Undefined
  /\ ~isSupportedFunctionCall(st)
  /\ isSupportedReturnToCaller(st)
  /\ isNotExitingRootNode(s, st) = "yes"

\* history: the name of the last completed assignment since the last exit
\* (r is the closure state the call left; a call that threw records nothing)
NextLastAssigned(s, st, r) ==
  IF s.prevState = Undefined \/ isSupportedFunctionCall(st) THEN lastAssigned
  ELSE IF IsProcessedExit(s, st) THEN NoVar
  ELSE IF IsCompletedAssignment(st) /\ r.fault = "none" THEN st.node.left
  ELSE lastAssigned

ErrorCountOf(r) == IF r.rootNode = Null THEN 0 ELSE r.info[r.rootNode].errorCount

\* the driver advances the interpreter and calls action(interpreter, m)
Step(st, m) ==
  /\ pc = "action"
  /\ \E s \in {Store}, t \in {st} :
       \E r \in {action(s, t, m)} :
         /\ ErrorCountOf(r) <= MaxErrors
         /\ Commit(r)
         /\ lastAssigned' = NextLastAssigned(s, t, r)
         /\ state' = t
  /\ maxAllowedReturnNodes' = m
  /\ pc' = "nextStep"

\* the last state handed to action was a call returning: the interpreter
\* pops it and resumes the statement that holds the call
CallJustReturned == isSupportedReturnToCaller(state)

ProgramStep ==
  /\ callStack = <<>>
  /\ Step(BaseState("Program"), MaxLimit)
  /\ UNCHANGED <<callStack, calls>>

EnterRoot ==
  /\ callStack = <<>> /\ calls = 0 /\ state # NoState
  /\ LET fr == Frame(RootName, "FunctionExpression", <<>>, Len(info) + 1)
     IN  /\ Step(CallState(fr), MaxLimit)
         /\ callStack' = <<fr>>
  /\ calls' = 1

EnterCall ==
  /\ callStack # <<>> /\ Top.phase = "body" /\ calls < MaxCalls
  /\ ~CallJustReturned
  /\ \E cs \in CallSites :
       LET fr == Frame(cs.name, "Identifier", cs.args, Len(info) + 1)
       IN  /\ Step(CallState(fr), MaxLimit)
           /\ callStack' = Append(callStack, fr)
  /\ calls' = calls + 1

CalleeResolved ==
  /\ callStack # <<>> /\ Top.phase = "callee"
  /\ Step([CallState(Top) EXCEPT !.doneCallee_ = TRUE,
             !.value = [isPrimitive |-> FALSE, data |-> "function"]],
          MaxLimit)
  /\ callStack' = SetTop("phase", "args")
  /\ UNCHANGED calls

ArgStep ==
  /\ callStack # <<>> /\ Top.phase = "args" /\ Top.n < Len(Top.args)
  /\ Step([CallState(Top) EXCEPT !.doneCallee_ = TRUE,
             !.func_ = [present |-> TRUE, nativeFunc |-> FALSE,
                        params |-> ParamsOf(Top.name)],
             !.n_ = Top.n + 1, !.value = ValueOf(Top.args[Top.n + 1])],
          MaxLimit)
  /\ callStack' = SetTop("n", Top.n + 1)
  /\ UNCHANGED calls

BodyStep ==
  /\ callStack # <<>> /\ Top.phase = "args" /\ Top.n = Len(Top.args)
  /\ Step([BaseState("BlockStatement") EXCEPT
             !.scope = [present |-> TRUE, properties |-> ScopeOf(Top.name)]],
          MaxLimit)
  /\ callStack' = SetTop("phase", "body")
  /\ UNCHANGED calls

AssignStep ==
  /\ callStack # <<>> /\ Top.phase = "body"
  /\ \E name \in AssignNames :
       Step([BaseState("AssignmentExpression") EXCEPT
               !.node.left = name, !.doneLeft = TRUE, !.doneRight = TRUE],
            MaxLimit)
  /\ UNCHANGED <<callStack, calls>>

DeclStep ==
  /\ callStack # <<>> /\ Top.phase = "body"
  /\ Step(BaseState("VariableDeclarator"), MaxLimit)
  /\ UNCHANGED <<callStack, calls>>

\* a call of a member method (array.slice) returning
OtherStates ==
  {[BaseState("CallExpression") EXCEPT
      !.node.callee = [type |-> "MemberExpression", name |-> ""],
      !.doneCallee_ = TRUE, !.doneExec = TRUE]}

OtherStep ==
  /\ callStack # <<>> /\ Top.phase = "body"
  /\ \E st \in OtherStates : Step(st, MaxLimit)
  /\ UNCHANGED <<callStack, calls>>

ExitStep ==
  /\ callStack # <<>> /\ Top.phase = "body"
  /\ ~CallJustReturned
  /\ \E v \in Values, m \in 0..MaxLimit :
       Step([CallState(Top) EXCEPT !.doneCallee_ = TRUE, !.doneExec = TRUE,
               !.func_ = [present |-> TRUE, nativeFunc |-> FALSE,
                          params |-> ParamsOf(Top.name)],
               !.n_ = Len(Top.args), !.value = v],
            m)
  /\ callStack' = Front(callStack)
  /\ UNCHANGED calls

NextStep ==
  /\ pc = "nextStep"
  /\ \E r \in {[setPrevState(Store, state) EXCEPT !.fault = "none", !.ret = FALSE,
                                                    !.itemsToRemoveCount = 0]} :
       Commit(r)
  /\ pc' = "action"
  /\ UNCHANGED <<state, callStack, calls, maxAllowedReturnNodes, lastAssigned>>

\* the driver calls finish between two steps, or before the first
Finish ==
  /\ pc = "action"
  /\ \E r \in {[finish(Store) EXCEPT !.ret = doneAction]} : Commit(r)
  /\ pc' = "done"
  /\ UNCHANGED <<state, callStack, calls, maxAllowedReturnNodes, lastAssigned>>

Init ==
  /\ nodes = <<>> /\ links = <<>> /\ info = <<>>
  /\ state = NoState /\ prevState = Undefined
  /\ scopeChain = <<>> /\ currentScope = {} /\ updatedDisplayArgs = <<>>
  /\ rootNode = Null /\ linkIndex = 0 /\ rootNodeIndex = 0
  /\ recursion = FALSE /\ warning = NoWarning
  /\ assignmentWarningVar = NoVar /\ exitingNode = Null
  /\ doneAction = FALSE /\ fault = "none" /\ itemsToRemoveCount = 0
  /\ lastAssigned = NoVar
  /\ callStack = <<>> /\ calls = 0
  /\ maxAllowedReturnNodes = MaxLimit
  /\ pc = "action"

Next ==
  \/ ProgramStep
  \/ EnterRoot
  \/ EnterCall
  \/ CalleeResolved
  \/ ArgStep
  \/ BodyStep
  \/ AssignStep
  \/ DeclStep
  \/ OtherStep
  \/ ExitStep
  \/ NextStep
  \/ Finish

Spec == Init /\ [][Next]_vars

\* the driver whose first call of action already finds the root call on top
\* of the interpreter's stack
FirstCallStep ==
  /\ callStack = <<>> /\ calls = 0 /\ state = NoState
  /\ LET fr == Frame(RootName, "FunctionExpression", <<>>, Len(info) + 1)
     IN  /\ Step(CallState(fr), MaxLimit)
         /\ callStack' = <<fr>>
  /\ calls' = 1

NextFirstCall ==
  \/ Next
  \/ FirstCallStep

SpecFirstCall == Init /\ [][NextFirstCall]_vars

\* ------------------------------------------------------------------------
\* Classification of the step a transition takes
\* ------------------------------------------------------------------------
ActionCall == pc = "action" /\ pc' = "nextStep"
Processed == ActionCall /\ prevState # Undefined
EntryTaken == Processed /\ isSupportedFunctionCall(state')
ExitTaken == ActionCall /\ IsProcessedExit(Store, state')
AnalyzerTaken == Processed /\ ~EntryTaken /\ ~ExitTaken
AfterAction == pc = "nextStep"
RootInfo == info[rootNode]

\* ------------------------------------------------------------------------
\* C1  Once a node with a recorded caller has been created, links.length
\*     equals nodes.length - 1 in every state.
\* ------------------------------------------------------------------------
CallerRecorded == \E i \in 1..Len(info) : info[i].callerNode # Null
C1_LinkNodeCount == CallerRecorded => Len(links) = Len(nodes) - 1

\* ------------------------------------------------------------------------
\* C2  Exactly one node ever created has type root, it is the first node
\*     created, and it stays in the nodes list in every later state.
\* ------------------------------------------------------------------------
C2_RootUnique ==
  Len(info) > 0 =>
    /\ {i \in 1..Len(info) : info[i].type = "root"} = {1}
    /\ rootNode = 1
    /\ 1 \in Elems(nodes)
\* the root survived an exit that evicted returned nodes
C2_Witness ==
  /\ AfterAction /\ isSupportedReturnToCaller(state)
  /\ itemsToRemoveCount > 0 /\ Len(info) >= 3
  /\ rootNode \in Elems(nodes) /\ info[rootNode].type = "root"

\* ------------------------------------------------------------------------
\* C3  After every processed exit rootNodeIndex is at most the limit passed
\*     to that step, and an eviction leaves exactly that many retained
\*     nodes, removing exactly the excess from the nodes list.
\* ------------------------------------------------------------------------
C3_RetainedWindow ==
  [][ExitTaken =>
       LET before == rootNodeIndex + (IF Len(links) > 0 THEN 1 ELSE 0)
           limit == maxAllowedReturnNodes'
       IN  /\ rootNodeIndex' <= limit
           /\ before > limit =>
                /\ rootNodeIndex' = limit
                /\ itemsToRemoveCount' = before - limit
                /\ Len(nodes') = Len(nodes) - (before - limit)
           /\ before <= limit =>
                /\ rootNodeIndex' = before
                /\ Len(nodes') = Len(nodes)]_vars
\* one exit evicted two nodes at once: the limit dropped from 2 to 0
C3_Witness ==
  /\ AfterAction /\ isSupportedReturnToCaller(state)
  /\ itemsToRemoveCount = 2 /\ maxAllowedReturnNodes = 0 /\ rootNodeIndex = 0

\* a usable value: a primitive with defined data, or any non-primitive
Usable(st) ==
  (st.value.isPrimitive /\ st.value.data # Undefined) \/ ~st.value.isPrimitive
\* retained nodes before the eviction test of an exit step
RetainedBeforeEviction == rootNodeIndex + (IF Len(links) > 0 THEN 1 ELSE 0)
CallingLinks == {l \in Elems(links) : l.state = "calling"}
MostRecentCallingLink ==
  CHOOSE l \in CallingLinks : \A k \in CallingLinks : k.linkIndex <= l.linkIndex

\* ------------------------------------------------------------------------
\* C4  An exit step with a usable value and no eviction replaces the most
\*     recently added calling link by one returning link with the endpoints
\*     swapped and a fresh linkIndex, the link count unchanged; an exit step
\*     without a usable value creates no returning link and removes one link.
\* ------------------------------------------------------------------------
C4_LinkReversal ==
  [][(ExitTaken /\ RetainedBeforeEviction <= maxAllowedReturnNodes') =>
       IF Usable(state')
       THEN /\ CallingLinks # {}
            /\ Len(links') = Len(links)
            /\ Elems(links) \ Elems(links') = {MostRecentCallingLink}
            /\ Elems(links') \ Elems(links) =
                 {[source |-> MostRecentCallingLink.target,
                   target |-> MostRecentCallingLink.source,
                   state |-> "returning", linkIndex |-> linkIndex]}
            /\ \A l \in Elems(links) : l.linkIndex < linkIndex
       ELSE /\ Len(links') = Len(links) - 1
            /\ Elems(links') \subseteq Elems(links)
            /\ linkIndex' = linkIndex]_vars

\* ------------------------------------------------------------------------
\* C5  On an entry step whose caller node has paramIds, every raw argument
\*     identifier equal to the caller's paramIds[j] becomes the caller's
\*     argumentIds[j] in the new node and every other identifier is kept.
\* ------------------------------------------------------------------------
ArgAt(a, j) == IF j <= Len(a) THEN a[j] ELSE Undefined
C6_WarningDedup ==
  [][(AnalyzerTaken /\ IsCompletedAssignment(state') /\ fault' = "none") =>
       doneAction' = (lastAssigned # state'.node.left)]_vars

\* ------------------------------------------------------------------------
\* C7  The warning action returns was produced by that same step: it is
\*     null unless this step is a no-return exit, an unassigned-return
\*     finding or a completed assignment, whatever earlier steps produced.
\* ------------------------------------------------------------------------
C7_PerStepWarning ==
  [][(ActionCall /\ fault' = "none") =>
       /\ \/ warning' = NoWarning
          \/ /\ warning' = WarnNoReturn
             /\ ExitTaken /\ ~Usable(state') /\ Len(links) > 0
          \/ /\ warning' = WarnUnassigned
             /\ AnalyzerTaken /\ exitingNode # Null
             /\ state'.node.type # "VariableDeclarator"
          \/ /\ warning' \in {WarnMutated, WarnNotInChain, WarnImmutability}
             /\ AnalyzerTaken /\ IsCompletedAssignment(state')
       /\ (ExitTaken /\ ~Usable(state') /\ Len(links) > 0)
            => warning' = WarnNoReturn
       /\ (~Processed \/ EntryTaken) => warning' = NoWarning]_vars
\* a step that produced no warning, after an earlier one that produced one
C7_Witness ==
  /\ AfterAction /\ fault = "none" /\ warning = NoWarning
  /\ rootNode # Null /\ RootInfo.errorCount > 0

\* ------------------------------------------------------------------------
\* C8  finish can be called at any time, also before any call was entered:
\*     it completes without a fault, leaves the root (when there is one)
\*     with status finished and changes nothing else.
\* ------------------------------------------------------------------------
C8_FinishAnyTime ==
  [][(pc # "done" /\ pc' = "done") =>
       /\ fault' = "none"
       /\ rootNode # Null =>
            info' = [info EXCEPT ![rootNode].status = "finished"]
       /\ rootNode = Null => info' = info
       /\ UNCHANGED <<nodes, links, scopeChain, rootNode, linkIndex,
                      rootNodeIndex, warning, assignmentWarningVar,
                      exitingNode, state, prevState>>]_vars

\* ------------------------------------------------------------------------
\* C9  The root's errorCount is 0 when the root is created and never
\*     decreases from one state to the next.
\* ------------------------------------------------------------------------
C9_ErrorCountMonotonic ==
  [][/\ rootNode # Null =>
          /\ rootNode' = rootNode
          /\ info'[rootNode].errorCount >= info[rootNode].errorCount
     /\ (rootNode = Null /\ rootNode' # Null) =>
          info'[rootNode'].errorCount = 0]_vars
\* the count has been incremented twice
C9_Witness == rootNode # Null /\ RootInfo.errorCount >= 2

\* ------------------------------------------------------------------------
\* C10 While the program runs, the scope chain holds exactly the nodes of
\*     the calls entered and not yet exited, in call order, and the
\*     callerNode of each such call is the node of the call that made it.
\* ------------------------------------------------------------------------
C10_ScopeChainMirrorsStack ==
  callStack # <<>> =>
    /\ scopeChain = [i \in 1..Len(callStack) |-> callStack[i].node]
    /\ \A i \in 2..Len(callStack) :
         info[callStack[i].node].callerNode = callStack[i - 1].node

\* ------------------------------------------------------------------------
\* Exit steps that process a link
\* ------------------------------------------------------------------------
\* the exit step finds a link to process (line 170-171)
ExitWithLink == ExitTaken /\ Len(links) > 0
NoEviction == RetainedBeforeEviction <= maxAllowedReturnNodes'
\* the node of the call that returns in this step
ReturningCallNode == callStack[Len(callStack)].node

\* ------------------------------------------------------------------------
\* C11 On an exit step for call X, X being the target of the link the step
\*     processes, X is the node removed from the live end of nodes and the
\*     node placed at index 0, rootNodeIndex grows by one, and before any
\*     eviction nodes holds the same set of nodes, none of them twice; also
\*     when a nested call returns and then its caller returns.
\* ------------------------------------------------------------------------
C11_ExitMovesNode ==
  [][(ExitWithLink /\ NoEviction) =>
       LET X == links[Len(links)].target
       IN  /\ nodes[Len(nodes)] = X
           /\ nodes' = <<X>> \o Front(nodes)
           /\ rootNodeIndex' = rootNodeIndex + 1
           /\ Elems(nodes') = Elems(nodes)
           /\ Cardinality(Elems(nodes')) = Len(nodes')]_vars

\* the nodes of the calls still executing once this exit step is over
LiveAfterExit == {callStack'[i].node : i \in 1..Len(callStack')}
\* nodes after the returning call's node moved to the front, before eviction
MovedToFront ==
  IF Len(links) > 0 THEN <<ReturningCallNode>> \o Front(nodes) ELSE nodes

\* ------------------------------------------------------------------------
\* C12 When the retained window exceeds the limit of the step, the nodes
\*     deleted are exactly the oldest excess returned nodes: the limit most
\*     recently returned nodes stay at the front, most recent first, the
\*     root and the nodes after it stay, and no node of a call that is
\*     still executing is removed.
\* ------------------------------------------------------------------------
C12_EvictsOldestReturned ==
  [][(ExitTaken /\ ~NoEviction) =>
       LET limit == maxAllowedReturnNodes'
           before == RetainedBeforeEviction
       IN  /\ nodes' = SubSeq(MovedToFront, 1, limit)
                         \o SubSeq(MovedToFront, before + 1, Len(MovedToFront))
           /\ \A n \in LiveAfterExit :
                n \in Elems(nodes) => n \in Elems(nodes')]_vars

\* the lists as exitLink and exitNode leave them in an exit step, before
\* removeOldestReturned runs
LinksBeforeEviction ==
  IF Len(links) = 0 THEN links
  ELSE IF IsUsableValue(state')
       THEN Front(<<[source |-> links[Len(links)].target,
                     target |-> links[Len(links)].source,
                     state |-> "returning", linkIndex |-> linkIndex]>> \o links)
       ELSE Front(links)
NodesBeforeEviction ==
  IF Len(links) = 0 THEN nodes ELSE <<scopeChain[Len(scopeChain)]>> \o Front(nodes)
EvictedNodes ==
  {NodesBeforeEviction[i] :
     i \in (maxAllowedReturnNodes' + 1)..RetainedBeforeEviction}

\* ------------------------------------------------------------------------
\* C13 Every link an eviction deletes is attached to a node evicted in the
\*     same step, and a calling link whose target is a call still executing
\*     is never deleted by an exit step, also after earlier no-return exits
\*     dropped links without adding a returning link.
\* ------------------------------------------------------------------------
C13_EvictsOnlyLinksOfEvicted ==
  [][(ExitTaken /\ ~NoEviction) =>
       /\ \A l \in Elems(LinksBeforeEviction) \ Elems(links') :
            l.source \in EvictedNodes \/ l.target \in EvictedNodes
       /\ \A l \in Elems(links) :
            (l.state = "calling" /\ l.target \in LiveAfterExit)
              => l \in Elems(links')]_vars

\* ------------------------------------------------------------------------
\* C14 On an exit step without a usable value the processed link's target
\*     gets status failure, the root's errorCount grows by exactly one, the
\*     link's source gets status warning unless it is the root, whose status
\*     is cleared instead, the link is removed and no returning link is
\*     created, and the warning is 'Function does not return a value'.
\* ------------------------------------------------------------------------
C14_NoReturnExit ==
  [][(ExitWithLink /\ ~Usable(state')) =>
       LET l == links[Len(links)]
       IN  /\ fault' = "none"
           /\ info'[l.target].status = "failure"
           /\ info'[rootNode].errorCount = info[rootNode].errorCount + 1
           /\ l.source # rootNode => info'[l.source].status = "warning"
           /\ l.source = rootNode => info'[rootNode].status = ""
           /\ l \notin Elems(links')
           /\ Elems(links') \subseteq Elems(links)
           /\ NoEviction => links' = Front(links)
           /\ linkIndex' = linkIndex
           /\ warning' = WarnNoReturn]_vars
\* a nested call returned nothing: it is marked failure, its caller warning
C14_Witness ==
  /\ AfterAction /\ isSupportedReturnToCaller(state) /\ ~Usable(state)
  /\ warning = WarnNoReturn /\ RootInfo.errorCount > 0
  /\ \E i \in 1..Len(info) :
       /\ info[i].status = "failure"
       /\ info[i].callerNode \notin {Null, rootNode}
       /\ info[info[i].callerNode].status = "warning"

\* ------------------------------------------------------------------------
\* C15 After an exit step recorded node X as pending, the very next step
\*     performs the check: unless it is a VariableDeclarator, X's caller
\*     gets status warning, the root's errorCount grows by one and the
\*     warning is 'Function result is not assigned to a value'; in both
\*     cases the marker is cleared by the end of that step, so the check
\*     fires at most once per exit.
\* ------------------------------------------------------------------------
C15_UnassignedCheckNextStep ==
  [][ActionCall =>
       /\ exitingNode # Null =>
            /\ fault' = "none"
            /\ exitingNode' = Null
            /\ state'.node.type # "VariableDeclarator" =>
                 /\ info'[info[exitingNode].callerNode].status = "warning"
                 /\ info'[rootNode].errorCount = info[rootNode].errorCount + 1
                 /\ warning' = WarnUnassigned
                 /\ doneAction'
            /\ state'.node.type = "VariableDeclarator" =>
                 /\ info' = info
                 /\ warning' = NoWarning
       /\ exitingNode = Null => warning' # WarnUnassigned]_vars
\* the statement after a returned call was not a declarator: the check fired
C15_Witness ==
  /\ AfterAction /\ prevState = "CallExpression"
  /\ ~isSupportedReturnToCaller(state) /\ ~isSupportedFunctionCall(state)
  /\ warning = WarnUnassigned /\ exitingNode = Null
  /\ RootInfo.errorCount > 0

\* ------------------------------------------------------------------------
\* Frames and their ancestry
\* ------------------------------------------------------------------------
\* the frames reachable from node n through the callerNode back-references
RECURSIVE AncestorsOf(_)
AncestorsOf(n) ==
  IF info[n].callerNode = Null THEN {}
  ELSE {info[n].callerNode} \union AncestorsOf(info[n].callerNode)
\* the node of the call that is executing, when the scope chain agrees
CurrentFrame == scopeChain[Len(scopeChain)]
DeclaringAncestors(name) ==
  {a \in AncestorsOf(CurrentFrame) : name \in info[a].variablesDeclaredInScope}
\* a caller is created before its callee: the nearest ancestor is the youngest
NearestDeclaringAncestor(name) ==
  CHOOSE a \in DeclaringAncestors(name) : \A b \in DeclaringAncestors(name) : b <= a
\* a completed assignment that reaches the out-of-scope check in the frame of
\* the call that is executing
AssignmentChecked ==
  /\ AnalyzerTaken /\ IsCompletedAssignment(state')
  /\ exitingNode = Null
  /\ callStack # <<>> /\ scopeChain # <<>>
  /\ CurrentFrame = callStack[Len(callStack)].node
AssignedOutOfFrame ==
  /\ AssignmentChecked
  /\ state'.node.left \notin info[CurrentFrame].variablesDeclaredInScope

\* ------------------------------------------------------------------------
\* C16 On a completed assignment to a name not declared in the current frame
\*     but declared in an ancestor frame, the walk stops at the nearest
\*     ancestor declaring it: the current frame and that ancestor get status
\*     warning, the root's errorCount grows by one, the warning is 'Function
\*     has mutated variable in another scope', and frames further out than
\*     that ancestor are not marked.
\* ------------------------------------------------------------------------
C16_MutationFoundInAncestor ==
  [][(AssignedOutOfFrame /\ DeclaringAncestors(state'.node.left) # {}) =>
       LET A == NearestDeclaringAncestor(state'.node.left)
       IN  /\ fault' = "none"
           /\ info'[CurrentFrame].status = "warning"
           /\ info'[A].status = "warning"
           /\ info'[rootNode].errorCount = info[rootNode].errorCount + 1
           /\ warning' = WarnMutated
           /\ \A n \in AncestorsOf(A) : info'[n].status = info[n].status]_vars

\* ------------------------------------------------------------------------
\* C17 On a completed assignment to a name declared in no frame of the
\*     ancestry, the root included, the walk ends at the frame without a
\*     caller and treats the name as not found: the step completes without
\*     a fault, the current frame gets status failure, the root's errorCount
\*     grows by one and the warning is 'Function refers to an external
\*     variable that does not exist in the scope chain'.
\* ------------------------------------------------------------------------
C17_MutationNotFound ==
  [][(AssignedOutOfFrame /\ DeclaringAncestors(state'.node.left) = {}) =>
       /\ fault' = "none"
       /\ info'[CurrentFrame].status = "failure"
       /\ info'[rootNode].errorCount = info[rootNode].errorCount + 1
       /\ warning' = WarnNotInChain]_vars

\* ------------------------------------------------------------------------
\* C18 In a step that is neither entry nor exit all three checks are
\*     evaluated even when an earlier one fired: when the unassigned-return
\*     check fires on a completed assignment, the assignment check still
\*     marks the node, sets the suppression variable, and its warning, the
\*     last one written, is the warning returned.
\* ------------------------------------------------------------------------
C18_AllChecksRun ==
  [][(AnalyzerTaken /\ exitingNode # Null /\ IsCompletedAssignment(state')
        /\ fault' = "none") =>
       /\ assignmentWarningVar' = state'.node.left
       /\ info'[CurrentFrame].status \in {"warning", "failure", "notice"}
       /\ warning' \in {WarnMutated, WarnNotInChain, WarnImmutability}]_vars

C20_NoDanglingLinks ==
  \A l \in Elems(links) :
    l.source \in Elems(nodes) /\ l.target \in Elems(nodes)

\* ------------------------------------------------------------------------
\* C21 Until nextStep has run after a call of action that observed a state,
\*     action classifies and changes nothing and returns [false, null]: the
\*     first state is only recorded, and no node is created for it when it
\*     is a function entry; every later state is processed, once per call
\*     of action.
\* ------------------------------------------------------------------------
C21_FirstStateNotProcessed ==
  [][/\ (ActionCall /\ prevState = Undefined) =>
          /\ doneAction' = FALSE /\ warning' = NoWarning /\ fault' = "none"
          /\ state' # NoState
          /\ UNCHANGED <<nodes, links, info, scopeChain, currentScope,
                         updatedDisplayArgs, rootNode, linkIndex,
                         rootNodeIndex, recursion, assignmentWarningVar,
                         exitingNode, prevState>>
     /\ (pc = "nextStep" /\ pc' = "action") =>
          /\ prevState' = state.node.type
          /\ prevState' # Undefined
     /\ ActionCall => prevState' = prevState
     /\ (ActionCall /\ prevState # Undefined) =>
          /\ isSupportedFunctionCall(state') =>
               Len(info') = Len(info) + 1 /\ doneAction'
          /\ ~isSupportedFunctionCall(state') => Len(info') = Len(info)]_vars
\* the first state handed to action was the entry of the root call: it was
\* recorded, and no node exists
C21_Witness ==
  /\ AfterAction /\ prevState = Undefined
  /\ isSupportedFunctionCall(state)
  /\ Len(info) = 0 /\ nodes = <<>> /\ rootNode = Null
  /\ ~doneAction /\ warning = NoWarning

====
